---------------------------- MODULE Spec2Model ----------------------------
(***************************************************************************)
(* apecs: sparse_set, entity identity and registry<foo, bar>.              *)
(*                                                                         *)
(* The registry is the one of include/apecs/apecs.hpp; the notification    *)
(* lists (on_add, on_remove) and the operations that walk them (add,       *)
(* emplace, the private remove overload, clear, the destructor) are the    *)
(* ones of apecs.hpp.  Callbacks are observers: each invocation is         *)
(* recorded together with what the callback can read at that moment.       *)
(* An assert is compiled in or out by the build: a call that violates one  *)
(* either aborts the process or goes on past it.                           *)
(***************************************************************************)
EXTENDS Integers, Sequences, FiniteSets, TLC

(* ------------------------------ bounds -------------------------------- *)

\* a run makes at most MaxCalls calls on the registry
MaxCalls == 6

\* number of values of version_t (2^32 in the code); ++version wraps here
VersionMod == 2

\* foo::value ranges over 1 .. MaxValue
MaxValue == 2

\* indices used with the stand-alone sparse_set<int> are 0 .. MaxIndex
MaxIndex == 3

(* ---------------------------- identifiers ----------------------------- *)

\* number of values of index_t (2^32 in the code): the slot indices are
\* 0 .. IndexMod - 1, and a registry holds at most IndexMod entities
IndexMod == 3

\* sparse_set::EMPTY, numeric_limits<size_t>::max(): all bits set
EMPTY == -1

\* what a read that fails its assert(has(index)) delivers
AssertFail == -2

\* generator_promise::d_val before the first co_yield
Unset == 0

\* the builds: assert compiled in (no NDEBUG) or compiled out (NDEBUG)
Builds == {"debug", "release"}

\* the declared component types, in tuple order: registry<foo, bar>
Comps == <<"foo", "bar">>

CompSet == {Comps[k] : k \in 1..Len(Comps)}

\* struct foo { int value; };  struct bar {};
ValuesOf(T) == IF T = "foo" THEN 1..MaxValue ELSE {0}

EntityValues == 0 .. (IndexMod * VersionMod - 1)

\* apx::null: every bit set
null == IndexMod * VersionMod - 1

split(id) == << (id \div VersionMod) % IndexMod, id % VersionMod >>

combine(i, v) == i * VersionMod + v

to_index(entity) == split(entity)[1]

(* ----------------------------- sparse_set ----------------------------- *)

\* a default-constructed sparse_set: both vectors empty
EmptySet == [packed |-> << >>, sparse |-> << >>]

ss_has(s, index) == index < Len(s.sparse) /\ s.sparse[index + 1] # EMPTY

ss_size(s) == Len(s.packed)

\* d_sparse.resize(index + 1, EMPTY) when the index is not covered yet
assure(s, index) ==
    IF Len(s.sparse) <= index
    THEN [s EXCEPT !.sparse =
             [k \in 1..(index + 1) |-> IF k <= Len(s.sparse) THEN s.sparse[k] ELSE EMPTY]]
    ELSE s

ss_insert(s, index, value) ==
    LET a == assure(s, index)
    IN  [packed |-> Append(a.packed, <<index, value>>),
         sparse |-> [a.sparse EXCEPT ![index + 1] = Len(a.packed)]]

ss_emplace(s, index, value) ==
    LET a == assure(s, index)
    IN  [packed |-> Append(a.packed, <<index, value>>),
         sparse |-> [a.sparse EXCEPT ![index + 1] = Len(a.packed)]]

pop_back(seq) == SubSeq(seq, 1, Len(seq) - 1)

\* erase that forgets "d_sparse[back.first] = packed_index"
ss_erase_stale_back(s, index) ==
    IF s.sparse[index + 1] = Len(s.packed) - 1
    THEN [packed |-> pop_back(s.packed),
          sparse |-> [s.sparse EXCEPT ![index + 1] = EMPTY]]
    ELSE LET back         == s.packed[Len(s.packed)]
             popped       == pop_back(s.packed)
             packed_index == s.sparse[index + 1]
         IN  [packed |-> [popped EXCEPT ![packed_index + 1] = back],
              sparse |-> [s.sparse EXCEPT ![index + 1] = EMPTY]]

\* erase that drops the back pair instead of moving it into the hole
ss_erase_no_swap(s, index) ==
    IF s.sparse[index + 1] = Len(s.packed) - 1
    THEN [packed |-> pop_back(s.packed),
          sparse |-> [s.sparse EXCEPT ![index + 1] = EMPTY]]
    ELSE LET back    == s.packed[Len(s.packed)]
             sparse1 == [s.sparse EXCEPT ![index + 1] = EMPTY]
         IN  [packed |-> pop_back(s.packed),
              sparse |-> [sparse1 EXCEPT ![back[1] + 1] = EMPTY]]

\* erase that closes the hole by shifting the pairs behind it one position down
ss_erase_shift(s, index) ==
    LET hole == s.sparse[index + 1]
    IN  [packed |-> [p \in 1..(Len(s.packed) - 1) |->
                        IF p <= hole THEN s.packed[p] ELSE s.packed[p + 1]],
         sparse |-> [k \in 1..Len(s.sparse) |->
                        IF k = index + 1 THEN EMPTY
                        ELSE IF s.sparse[k] > hole THEN s.sparse[k] - 1
                        ELSE s.sparse[k]]]

ss_erase(s, index) ==
    IF s.sparse[index + 1] = Len(s.packed) - 1
    THEN [packed |-> pop_back(s.packed),
          sparse |-> [s.sparse EXCEPT ![index + 1] = EMPTY]]
    ELSE LET back         == s.packed[Len(s.packed)]
             popped       == pop_back(s.packed)
             packed_index == s.sparse[index + 1]
             sparse1      == [s.sparse EXCEPT ![index + 1] = EMPTY]
         IN  [packed |-> [popped EXCEPT ![packed_index + 1] = back],
              sparse |-> [sparse1 EXCEPT ![back[1] + 1] = packed_index]]

ss_erase_if_exists(s, index) == IF ss_has(s, index) THEN ss_erase(s, index) ELSE s

\* operator[]: assert(has(index)); return d_packed[d_sparse[index]].second
ss_at(s, index) ==
    IF ss_has(s, index) /\ s.sparse[index + 1] < Len(s.packed)
    THEN s.packed[s.sparse[index + 1] + 1][2]
    ELSE AssertFail

\* each(): the dense array in its current order
ss_each(s) == s.packed

\* clear(): d_packed.clear(); d_sparse.clear()
ss_clear(s) == [packed |-> << >>, sparse |-> << >>]

(* ------------------------------ registry ------------------------------ *)

VARIABLES
    d_entities,    \* sparse_set<entity>: slot index -> the entity living there
    d_pool,        \* deque<entity>: retired entities awaiting reuse
    d_components,  \* one sparse_set per declared component type
    d_on_add,      \* per type, the number of registered on_add callbacks
    d_on_remove,   \* per type, the number of registered on_remove callbacks
    set,           \* a stand-alone sparse_set<int>
    dst,           \* a second registry<foo, bar>, the destination of copy
    last,          \* the last call: its arguments, result and callback invocations
    retired,       \* history: entity values that were destroyed or cleared away
    cleared,       \* history: clear() has been called
    wrapped,       \* history: a ++version in create() wrapped to 0
    ncalls,        \* history: the number of calls made on the registry
    d_coroutine,   \* the coroutine a generator owns: its frame and its promise
    range_for      \* the range-for over the generator: its position and history

vars == <<d_entities, d_pool, d_components, d_on_add, d_on_remove, set, dst, last,
          retired, cleared, wrapped, ncalls, d_coroutine, range_for>>

\* the registry as one value
Reg == [entities   |-> d_entities,
        pool       |-> d_pool,
        components |-> d_components,
        on_add     |-> d_on_add,
        on_remove  |-> d_on_remove]

size(r) == ss_size(r.entities)

\* valid() without the d_entities.has(index) test
valid_eval_unguarded(r, entity) ==
    LET index == to_index(entity)
    IN  IF entity = null THEN [ret |-> FALSE, fail |-> FALSE]
        ELSE [ret  |-> ss_at(r.entities, index) = entity,
              fail |-> ss_at(r.entities, index) = AssertFail]

\* valid(): entity != null && d_entities.has(index) && d_entities[index] == entity,
\* evaluated left to right; fail says that operator[] tripped its assert
valid_eval(r, entity) ==
    LET index == to_index(entity)
    IN  IF entity = null THEN [ret |-> FALSE, fail |-> FALSE]
        ELSE IF ~ss_has(r.entities, index) THEN [ret |-> FALSE, fail |-> FALSE]
        ELSE [ret  |-> ss_at(r.entities, index) = entity,
              fail |-> ss_at(r.entities, index) = AssertFail]

valid(r, entity) == valid_eval(r, entity).ret

\* has<Comp>(entity): get_comps<Comp>().has(to_index(entity))
has(r, T, entity) == ss_has(r.components[T], to_index(entity))

\* get<Comp>(entity): get_comps<Comp>()[to_index(entity)]
get(r, T, entity) == ss_at(r.components[T], to_index(entity))

\* create() that reissues a pooled entity without ++version
create_same_version(r) ==
    LET fresh   == r.pool = << >>
        index   == IF fresh THEN ss_size(r.entities) % IndexMod ELSE split(r.pool[1])[1]
        version == IF fresh THEN 0 ELSE split(r.pool[1])[2]
        id      == combine(index, version)
    IN  [reg |-> [r EXCEPT !.pool     = IF fresh THEN r.pool ELSE Tail(r.pool),
                           !.entities = ss_insert(r.entities, index, id)],
         id  |-> id,
         wrap |-> FALSE]

\* create() that takes the back of the pool (a stack instead of a queue)
create_from_back(r) ==
    LET fresh   == r.pool = << >>
        back    == r.pool[Len(r.pool)]
        index   == IF fresh THEN ss_size(r.entities) % IndexMod ELSE split(back)[1]
        version == IF fresh THEN 0 ELSE (split(back)[2] + 1) % VersionMod
        id      == combine(index, version)
    IN  [reg |-> [r EXCEPT !.pool     = IF fresh THEN r.pool ELSE pop_back(r.pool),
                           !.entities = ss_insert(r.entities, index, id)],
         id  |-> id,
         wrap |-> ~fresh /\ version = 0]

\* create(): reuse the front of the pool with the next version, else a new index
create(r) ==
    LET fresh   == r.pool = << >>
        index   == IF fresh THEN ss_size(r.entities) % IndexMod ELSE split(r.pool[1])[1]
        version == IF fresh THEN 0 ELSE (split(r.pool[1])[2] + 1) % VersionMod
        id      == combine(index, version)
    IN  [reg |-> [r EXCEPT !.pool     = IF fresh THEN r.pool ELSE Tail(r.pool),
                           !.entities = ss_insert(r.entities, index, id)],
         id  |-> id,
         wrap |-> ~fresh /\ version = 0]

\* what one on_remove / on_add callback is handed and can read when it runs
Event(r, k, T, entity) ==
    [cb     |-> k,
     comp   |-> T,
     entity |-> entity,
     value  |-> get(r, T, entity),
     has    |-> has(r, T, entity),
     valid  |-> valid(r, entity)]

\* for (auto& cb : on_remove<Comp>) cb(entity, get<Comp>(entity))
notify_remove(r, T, entity) ==
    [k \in 1..r.on_remove[T] |-> Event(r, k, T, entity)]

\* remove that walks the callbacks without testing has<Comp>(entity)
remove_impl_unchecked(r, T, entity) ==
    [reg   |-> [r EXCEPT !.components[T] =
                   ss_erase_if_exists(r.components[T], to_index(entity))],
     calls |-> notify_remove(r, T, entity)]

\* remove that erases first and walks the callbacks afterwards
remove_impl_erase_first(r, T, entity) ==
    IF has(r, T, entity)
    THEN LET erased == [r EXCEPT !.components[T] =
                           ss_erase(r.components[T], to_index(entity))]
         IN  [reg |-> erased, calls |-> notify_remove(erased, T, entity)]
    ELSE [reg |-> r, calls |-> << >>]

\* the private remove(entity, component_set): callbacks first, then the erase
remove_impl(r, T, entity) ==
    IF has(r, T, entity)
    THEN [reg   |-> [r EXCEPT !.components[T] = ss_erase(r.components[T], to_index(entity))],
          calls |-> notify_remove(r, T, entity)]
    ELSE [reg |-> r, calls |-> << >>]

\* remove<Comp>(entity)
remove(r, T, entity) == remove_impl(r, T, entity)

\* remove_all_components(entity): remove for every declared type, in tuple order
RECURSIVE remove_from(_, _, _)
remove_from(r, entity, k) ==
    IF k > Len(Comps) THEN [reg |-> r, calls |-> << >>]
    ELSE LET one  == remove_impl(r, Comps[k], entity)
             rest == remove_from(one.reg, entity, k + 1)
         IN  [reg |-> rest.reg, calls |-> one.calls \o rest.calls]

remove_all_components(r, entity) == remove_from(r, entity, 1)

\* destroy that releases the slot without remove_all_components
destroy_keeps_components(r, entity) ==
    [reg   |-> [r EXCEPT !.pool     = Append(r.pool, entity),
                         !.entities = ss_erase(r.entities, to_index(entity))],
     calls |-> << >>]

\* destroy that releases the slot first and removes the components afterwards
destroy_release_first(r, entity) ==
    LET released == [r EXCEPT !.pool     = Append(r.pool, entity),
                              !.entities = ss_erase(r.entities, to_index(entity))]
        rm       == remove_all_components(released, entity)
    IN  [reg |-> rm.reg, calls |-> rm.calls]

\* destroy that puts the entity at the front of the pool
destroy_push_front(r, entity) ==
    LET rm == remove_all_components(r, entity)
    IN  [reg   |-> [rm.reg EXCEPT !.pool     = <<entity>> \o rm.reg.pool,
                                  !.entities = ss_erase(rm.reg.entities, to_index(entity))],
         calls |-> rm.calls]

\* destroy(entity): components first, then the pool and the entity set
destroy(r, entity) ==
    LET rm == remove_all_components(r, entity)
    IN  [reg   |-> [rm.reg EXCEPT !.pool     = Append(rm.reg.pool, entity),
                                  !.entities = ss_erase(rm.reg.entities, to_index(entity))],
         calls |-> rm.calls]

\* for (auto [index, entity] : d_entities) remove_all_components(entity),
\* from the p-th dense pair of the entity set on
RECURSIVE clear_from(_, _)
clear_from(r, p) ==
    IF p > Len(r.entities.packed) THEN [reg |-> r, calls |-> << >>]
    ELSE LET one  == remove_all_components(r, r.entities.packed[p][2])
             rest == clear_from(one.reg, p + 1)
         IN  [reg |-> rest.reg, calls |-> one.calls \o rest.calls]

\* clear that empties the entity set before it removes the components
clear_entities_first(r) ==
    LET rm == clear_from(r, 1)
        Gone(e) == [e EXCEPT !.valid = FALSE]
    IN  [reg   |-> [rm.reg EXCEPT !.entities = ss_clear(rm.reg.entities),
                                  !.pool     = << >>],
         calls |-> [i \in 1..Len(rm.calls) |-> Gone(rm.calls[i])]]

\* clear that drops the stores without walking the entities
clear_silent(r) ==
    [reg   |-> [r EXCEPT !.components = [T \in CompSet |-> EmptySet],
                         !.entities   = ss_clear(r.entities),
                         !.pool       = << >>],
     calls |-> << >>]

\* clear(): the components of every entity are removed, callbacks included,
\* then d_entities.clear(); d_pool.clear()
clear(r) ==
    LET rm == clear_from(r, 1)
    IN  [reg   |-> [rm.reg EXCEPT !.entities = ss_clear(rm.reg.entities),
                                  !.pool     = << >>],
         calls |-> rm.calls]

\* for (auto cb : on_add<Comp>) cb(entity, ret)
notify_add(r, T, entity) ==
    [k \in 1..r.on_add[T] |-> Event(r, k, T, entity)]

\* add that walks the callbacks before the insert
add_notify_first(r, T, entity, component) ==
    [reg   |-> [r EXCEPT !.components[T] =
                   ss_insert(r.components[T], to_index(entity), component)],
     calls |-> notify_add(r, T, entity)]

\* add<Comp>(entity, component): the insert, then the on_add callbacks
add(r, T, entity, component) ==
    LET inserted == [r EXCEPT !.components[T] =
                        ss_insert(r.components[T], to_index(entity), component)]
    IN  [reg |-> inserted, calls |-> notify_add(inserted, T, entity)]

\* emplace<Comp>(entity, args...): the emplace, then the on_add callbacks
emplace_comp(r, T, entity, component) ==
    LET emplaced == [r EXCEPT !.components[T] =
                        ss_emplace(r.components[T], to_index(entity), component)]
    IN  [reg |-> emplaced, calls |-> notify_add(emplaced, T, entity)]

\* on_add<Comp>(callback): push_back
on_add(r, T) == [r EXCEPT !.on_add[T] = @ + 1]

\* on_remove<Comp>(callback): push_back
on_remove(r, T) == [r EXCEPT !.on_remove[T] = @ + 1]

\* from_index(index): d_entities[index]
from_index(r, index) == ss_at(r.entities, index)

\* all(): d_entities.each() | views::values
all(r) == [p \in 1..Len(ss_each(r.entities)) |-> ss_each(r.entities)[p][2]]

\* has_all<Comps...>(entity)
has_all(r, Ts, entity) == \A k \in 1..Len(Ts) : has(r, Ts[k], entity)

\* apx::meta::get_first<Comps...>::type
get_first(Ts) == Ts[1]

\* a view that walks the store with the fewest entries among the requested types
view_driver_smallest(r, Ts) ==
    LET least == CHOOSE k \in 1..Len(Ts) :
                    \A j \in 1..Len(Ts) :
                       \/ ss_size(r.components[Ts[k]]) < ss_size(r.components[Ts[j]])
                       \/ ss_size(r.components[Ts[k]]) = ss_size(r.components[Ts[j]])
                          /\ k <= j
    IN  ss_each(r.components[Ts[least]])

\* the dense array view<Comps...>() walks: get_comps<Comp>().each() for the first
\* type of the list
view_driver(r, Ts) == ss_each(r.components[get_first(Ts)])

\* view<Comps...>(): the first type's dense array drives; the entity of each index
\* comes from from_index; with more than one type the entities are filtered by
\* has_all.  fail says that an assert tripped while iterating
view_eval(r, Ts) ==
    IF Len(Ts) = 0 THEN [ret |-> all(r), fail |-> FALSE]
    ELSE LET driver      == view_driver(r, Ts)
             entity_view == [p \in 1..Len(driver) |-> from_index(r, driver[p][1])]
             Keep(entity) == has_all(r, Ts, entity)
         IN  [ret  |-> IF Len(Ts) > 1 THEN SelectSeq(entity_view, Keep) ELSE entity_view,
              fail |-> \E p \in 1..Len(entity_view) :
                          \/ entity_view[p] = AssertFail
                          \/ Len(Ts) > 1 /\ ~valid(r, entity_view[p])]

view(r, Ts) == view_eval(r, Ts).ret

\* the null pointer
nullptr == << >>

\* &get<Comp>(entity): the place of the component, d_packed[d_sparse[index]].second
address(r, T, entity) == <<T, r.components[T].sparse[to_index(entity) + 1]>>

\* what a non-null Comp* reads
deref(r, ptr) == r.components[ptr[1]].packed[ptr[2] + 1][2]

\* get_if without the has<Comp>(entity) test
get_if_unchecked(r, T, entity) ==
    [ptr  |-> IF to_index(entity) < Len(r.components[T].sparse)
              THEN address(r, T, entity) ELSE <<T, EMPTY>>,
     fail |-> get(r, T, entity) = AssertFail]

\* get_if<Comp>(entity): has<Comp>(entity) ? &get<Comp>(entity) : nullptr;
\* fail says that get tripped its assert(has<Comp>(entity))
get_if(r, T, entity) ==
    IF has(r, T, entity)
    THEN [ptr |-> address(r, T, entity), fail |-> get(r, T, entity) = AssertFail]
    ELSE [ptr |-> nullptr, fail |-> FALSE]

\* the predicates handed to find and destroy_if: the default one, one that looks
\* at the entity alone and two that read the registry
Preds == {"any", "top", "foo1", "crowded"}

Pred(p, r, entity) ==
    CASE p = "any"     -> TRUE
      [] p = "top"     -> to_index(entity) = IndexMod - 1
      [] p = "foo1"    -> has(r, "foo", entity) /\ get(r, "foo", entity) = 1
      [] p = "crowded" -> size(r) >= 2

\* find<Comps...>(predicate): ranges::find_if over the view, else apx::null
find(r, Ts, p) ==
    LET v    == view(r, Ts)
        hits == {k \in 1..Len(v) : Pred(p, r, v[k])}
    IN  IF hits = {} THEN null
        ELSE v[CHOOSE k \in hits : \A j \in hits : k <= j]

\* destroy(entities) that walks the sequence back to front
RECURSIVE destroy_span_reversed(_, _, _, _)
destroy_span_reversed(r, entities, k, build) ==
    LET e == entities[Len(entities) + 1 - k]
    IN  IF k > Len(entities) THEN [reg |-> r, calls |-> << >>, abort |-> FALSE]
        ELSE IF build = "debug" /\ ~valid(r, e)
             THEN [reg |-> r, calls |-> << >>, abort |-> TRUE]
        ELSE LET one  == destroy(r, e)
                 rest == destroy_span_reversed(one.reg, entities, k + 1, build)
             IN  [reg |-> rest.reg, calls |-> one.calls \o rest.calls,
                  abort |-> rest.abort]

\* destroy(span / initializer_list): for_each(entities, destroy), from the k-th
\* element on; a build with asserts stops at an element that is not valid
RECURSIVE destroy_span(_, _, _, _)
destroy_span(r, entities, k, build) ==
    IF k > Len(entities) THEN [reg |-> r, calls |-> << >>, abort |-> FALSE]
    ELSE IF build = "debug" /\ ~valid(r, entities[k])
         THEN [reg |-> r, calls |-> << >>, abort |-> TRUE]
    ELSE LET one  == destroy(r, entities[k])
             rest == destroy_span(one.reg, entities, k + 1, build)
         IN  [reg |-> rest.reg, calls |-> one.calls \o rest.calls,
              abort |-> rest.abort]

\* the entities destroy_if collects: view<Ts...>() | filter(cb), copied to a vector
to_delete(r, Ts, p) ==
    LET Keep(entity) == Pred(p, r, entity)
    IN  SelectSeq(view(r, Ts), Keep)

\* destroy_if<Ts...>(cb): the vector is filled first, then destroy(to_delete)
destroy_if(r, Ts, p, build) == destroy_span(r, to_delete(r, Ts, p), 1, build)

\* what erase(index) leaves behind.  On an occupied index it is ss_erase.  On any
\* other index assert(has(index)) trips; where it is compiled out the code reads
\* EMPTY as a dense position, which is undefined: the process crashes, or the
\* back pair is popped and its sparse entry overwritten with that position
erase_outcomes(s, index) ==
    IF ss_has(s, index) THEN {[crash |-> FALSE, set |-> ss_erase(s, index)]}
    ELSE {[crash |-> TRUE, set |-> s]} \cup
         (IF Len(s.packed) > 0
          THEN LET back == s.packed[Len(s.packed)]
               IN  {[crash |-> FALSE,
                     set   |-> [packed |-> pop_back(s.packed),
                                sparse |-> [s.sparse EXCEPT ![back[1] + 1] = EMPTY]]]}
          ELSE {})

\* destroy(entity) past its assert(valid(entity)): the outcomes of
\* remove_all_components, d_pool.push_back and d_entities.erase
destroy_outcomes(r, entity) ==
    LET rm == remove_all_components(r, entity)
    IN  {[crash |-> o.crash,
          reg   |-> [rm.reg EXCEPT !.pool     = Append(rm.reg.pool, entity),
                                   !.entities = o.set],
          calls |-> rm.calls] : o \in erase_outcomes(rm.reg.entities, to_index(entity))}

\* a default-constructed registry
EmptyRegistry ==
    [entities   |-> EmptySet,
     pool       |-> << >>,
     components |-> [T \in CompSet |-> EmptySet],
     on_add     |-> [T \in CompSet |-> 0],
     on_remove  |-> [T \in CompSet |-> 0]]

\* the loop of copy over the declared types, from the k-th on:
\* if (src.has<T>(entity)) dst.add<T>(new_entity, src.get<T>(entity));
\* where asserts are compiled in, add stops at a new_entity that is not valid
RECURSIVE copy_from(_, _, _, _, _, _)
copy_from(entity, src, d, new_entity, k, build) ==
    IF k > Len(Comps) THEN [dst |-> d, calls |-> << >>, abort |-> FALSE]
    ELSE IF ~has(src, Comps[k], entity)
         THEN copy_from(entity, src, d, new_entity, k + 1, build)
    ELSE IF build = "debug" /\ ~valid(d, new_entity)
         THEN [dst |-> d, calls |-> << >>, abort |-> TRUE]
    ELSE LET one  == add(d, Comps[k], new_entity, get(src, Comps[k], entity))
             rest == copy_from(entity, src, one.reg, new_entity, k + 1, build)
         IN  [dst |-> rest.dst, calls |-> one.calls \o rest.calls, abort |-> rest.abort]

\* copy(entity, src, dst): dst.create(), then the loop over the declared types
copy(entity, src, d, build) ==
    LET c    == create(d)
        loop == copy_from(entity, src, c.reg, c.id, 1, build)
    IN  [dst |-> loop.dst, id |-> c.id, calls |-> loop.calls, abort |-> loop.abort]

\* handle(r, e): d_registry(&r), d_entity(e); the model has one registry a handle
\* can point at
handle(e) == [d_registry |-> "registry", d_entity |-> e]

\* create_from(registry): {registry, registry.create()}
create_from(r) ==
    LET c == create(r)
    IN  [reg |-> c.reg, handle |-> handle(c.id), wrap |-> c.wrap]

\* the methods of handle: d_registry->valid(d_entity), d_registry->destroy(d_entity),
\* d_registry->add<Comp>(d_entity, component), ...
handle_valid(r, h) == valid_eval(r, h.d_entity)

handle_destroy(r, h) == destroy(r, h.d_entity)

handle_add(r, h, T, component) == add(r, T, h.d_entity, component)

handle_emplace(r, h, T, component) == emplace_comp(r, T, h.d_entity, component)

handle_remove(r, h, T) == remove(r, T, h.d_entity)

handle_has(r, h, T) == has(r, T, h.d_entity)

handle_get(r, h, T) == get(r, T, h.d_entity)

handle_get_if(r, h, T) == get_if(r, T, h.d_entity)

(* ------------------------------ actions ------------------------------- *)

\* the type lists a view is asked for: view<>, view<A>, view<A, B>
TypeLists == {<< >>} \cup {<<a>> : a \in CompSet} \cup {<<a, b>> : a, b \in CompSet}

\* no generator: a null coroutine handle
NoCoroutine == [kind |-> "none", values |-> << >>, throws |-> FALSE, started |-> FALSE,
                pc |-> 0, end |-> 0, done |-> FALSE, d_val |-> Unset,
                d_exception |-> FALSE]

NoLoop == [phase |-> "none", start |-> << >>, values |-> << >>, seen |-> << >>,
           resumes |-> 0]

NoCall == [op |-> "none", entity |-> 0, comp |-> "-", value |-> 0,
           types |-> << >>, pred |-> "-", entities |-> << >>,
           ret |-> 0, calls |-> << >>, invalid |-> FALSE]

Init ==
    /\ d_entities = EmptySet
    /\ d_pool = << >>
    /\ d_components = [T \in CompSet |-> EmptySet]
    /\ d_on_add = [T \in CompSet |-> 0]
    /\ d_on_remove = [T \in CompSet |-> 0]
    /\ set = EmptySet
    /\ dst = EmptyRegistry
    /\ last = NoCall
    /\ retired = {}
    /\ cleared = FALSE
    /\ wrapped = FALSE
    /\ ncalls = 0
    /\ d_coroutine = NoCoroutine
    /\ range_for = NoLoop

\* the calls after which the registry is gone: its destructor, and an abort
Ended == {"~registry", "add.abort", "emplace.abort", "destroy_if.abort",
          "remove.abort", "has.abort", "get_if.abort", "destroy.abort", "copy.abort"}

\* one more call on the registry; a run is followed up to its first call with an
\* entity that is not valid
Call ==
    /\ ncalls < MaxCalls
    /\ last.op \notin Ended
    /\ ~last.invalid
    /\ ncalls' = ncalls + 1

SetReg(r) ==
    /\ d_entities' = r.entities
    /\ d_pool' = r.pool
    /\ d_components' = r.components
    /\ d_on_add' = r.on_add
    /\ d_on_remove' = r.on_remove

\* create(); with an empty pool the new slot index is size(), which index_t holds
\* as long as the registry has fewer than IndexMod entities
Create ==
    /\ Call
    /\ d_pool # << >> \/ size(Reg) < IndexMod
    /\ LET c == create(Reg)
       IN  /\ SetReg(c.reg)
           /\ last' = [NoCall EXCEPT !.op = "create", !.entity = c.id]
           /\ wrapped' = (wrapped \/ c.wrap)
    /\ UNCHANGED <<set, dst, retired, cleared, d_coroutine, range_for>>

Destroy(e) ==
    /\ Call
    /\ valid(Reg, e)
    /\ LET d == destroy(Reg, e)
       IN  /\ SetReg(d.reg)
           /\ last' = [NoCall EXCEPT !.op = "destroy", !.entity = e, !.calls = d.calls]
    /\ retired' = retired \cup {e}
    /\ UNCHANGED <<set, dst, cleared, wrapped, d_coroutine, range_for>>

Clear ==
    /\ Call
    /\ LET c == clear(Reg)
       IN  /\ SetReg(c.reg)
           /\ last' = [NoCall EXCEPT !.op = "clear", !.calls = c.calls]
    /\ retired' = retired \cup {e \in EntityValues : valid(Reg, e)}
    /\ cleared' = TRUE
    /\ UNCHANGED <<set, dst, wrapped, d_coroutine, range_for>>

Add(e, T, v) ==
    /\ Call
    /\ valid(Reg, e)
    /\ ~has(Reg, T, e)
    /\ LET a == add(Reg, T, e, v)
       IN  /\ SetReg(a.reg)
           /\ last' = [NoCall EXCEPT !.op = "add", !.entity = e, !.comp = T,
                                     !.value = v, !.calls = a.calls]
    /\ UNCHANGED <<set, dst, retired, cleared, wrapped, d_coroutine, range_for>>

Emplace(e, T, v) ==
    /\ Call
    /\ valid(Reg, e)
    /\ ~has(Reg, T, e)
    /\ LET a == emplace_comp(Reg, T, e, v)
       IN  /\ SetReg(a.reg)
           /\ last' = [NoCall EXCEPT !.op = "emplace", !.entity = e, !.comp = T,
                                     !.value = v, !.calls = a.calls]
    /\ UNCHANGED <<set, dst, retired, cleared, wrapped, d_coroutine, range_for>>

Remove(e, T) ==
    /\ Call
    /\ valid(Reg, e)
    /\ LET rm == remove(Reg, T, e)
       IN  /\ SetReg(rm.reg)
           /\ last' = [NoCall EXCEPT !.op = "remove", !.entity = e, !.comp = T,
                                     !.calls = rm.calls]
    /\ UNCHANGED <<set, dst, retired, cleared, wrapped, d_coroutine, range_for>>

OnRemove(T) ==
    /\ Call
    /\ SetReg(on_remove(Reg, T))
    /\ last' = [NoCall EXCEPT !.op = "on_remove", !.comp = T]
    /\ UNCHANGED <<set, dst, retired, cleared, wrapped, d_coroutine, range_for>>

Valid(e) ==
    /\ Call
    /\ last' = [NoCall EXCEPT !.op = "valid", !.entity = e, !.ret = valid_eval(Reg, e)]
    /\ UNCHANGED <<d_entities, d_pool, d_components, d_on_add, d_on_remove, set, dst,
                   retired, cleared, wrapped, d_coroutine, range_for>>

View(Ts) ==
    /\ Call
    /\ last' = [NoCall EXCEPT !.op = "view", !.types = Ts, !.ret = view_eval(Reg, Ts)]
    /\ UNCHANGED <<d_entities, d_pool, d_components, d_on_add, d_on_remove, set, dst,
                   retired, cleared, wrapped, d_coroutine, range_for>>

OnAdd(T) ==
    /\ Call
    /\ SetReg(on_add(Reg, T))
    /\ last' = [NoCall EXCEPT !.op = "on_add", !.comp = T]
    /\ UNCHANGED <<set, dst, retired, cleared, wrapped, d_coroutine, range_for>>

\* ~registry(): clear(); no call follows it
Destructor ==
    /\ Call
    /\ LET c == clear(Reg)
       IN  /\ SetReg(c.reg)
           /\ last' = [NoCall EXCEPT !.op = "~registry", !.calls = c.calls]
    /\ retired' = retired \cup {e \in EntityValues : valid(Reg, e)}
    /\ cleared' = TRUE
    /\ UNCHANGED <<set, dst, wrapped, d_coroutine, range_for>>

\* add<T>(e, v) on an entity that has T already: assure's assert(!has(index))
\* aborts the process where it is compiled in, elsewhere add goes on
AddHeld(e, T, v) ==
    /\ Call
    /\ valid(Reg, e)
    /\ has(Reg, T, e)
    /\ \E build \in Builds :
          IF build = "debug"
          THEN /\ last' = [NoCall EXCEPT !.op = "add.abort", !.entity = e,
                                         !.comp = T, !.value = v]
               /\ UNCHANGED <<d_entities, d_pool, d_components, d_on_add, d_on_remove, d_coroutine, range_for>>
          ELSE LET a == add(Reg, T, e, v)
               IN  /\ SetReg(a.reg)
                   /\ last' = [NoCall EXCEPT !.op = "add", !.entity = e, !.comp = T,
                                             !.value = v, !.calls = a.calls]
    /\ UNCHANGED <<set, dst, retired, cleared, wrapped, d_coroutine, range_for>>

\* emplace<T>(e, args...) on an entity that has T already
EmplaceHeld(e, T, v) ==
    /\ Call
    /\ valid(Reg, e)
    /\ has(Reg, T, e)
    /\ \E build \in Builds :
          IF build = "debug"
          THEN /\ last' = [NoCall EXCEPT !.op = "emplace.abort", !.entity = e,
                                         !.comp = T, !.value = v]
               /\ UNCHANGED <<d_entities, d_pool, d_components, d_on_add, d_on_remove, d_coroutine, range_for>>
          ELSE LET a == emplace_comp(Reg, T, e, v)
               IN  /\ SetReg(a.reg)
                   /\ last' = [NoCall EXCEPT !.op = "emplace", !.entity = e, !.comp = T,
                                             !.value = v, !.calls = a.calls]
    /\ UNCHANGED <<set, dst, retired, cleared, wrapped, d_coroutine, range_for>>

GetIf(e, T) ==
    /\ Call
    /\ valid(Reg, e)
    /\ last' = [NoCall EXCEPT !.op = "get_if", !.entity = e, !.comp = T,
                              !.ret = get_if(Reg, T, e)]
    /\ UNCHANGED <<d_entities, d_pool, d_components, d_on_add, d_on_remove, set, dst,
                   retired, cleared, wrapped, d_coroutine, range_for>>

Find(Ts, p) ==
    /\ Call
    /\ last' = [NoCall EXCEPT !.op = "find", !.types = Ts, !.pred = p,
                              !.ret = find(Reg, Ts, p)]
    /\ UNCHANGED <<d_entities, d_pool, d_components, d_on_add, d_on_remove, set, dst,
                   retired, cleared, wrapped, d_coroutine, range_for>>

\* the entity values that valid() accepted before and does not accept in r
Destroyed(r) == {e \in EntityValues : valid(Reg, e) /\ ~valid(r, e)}

\* the sequences of pairwise different elements of S
DistinctSeqs(S) ==
    {seq \in UNION {[1..n -> S] : n \in 0..Cardinality(S)} :
        \A i, j \in 1..Len(seq) : i # j => seq[i] # seq[j]}

\* the slot indices
Slots == 0..(IndexMod - 1)

\* destroy(entities) with the valid entities that live at the given, pairwise
\* different slots: no assert trips, the builds do the same
DestroySpan(slots) ==
    /\ Call
    /\ \A k \in 1..Len(slots) :
          ss_has(d_entities, slots[k]) /\ valid(Reg, from_index(Reg, slots[k]))
    /\ LET entities == [k \in 1..Len(slots) |-> from_index(Reg, slots[k])]
           d        == destroy_span(Reg, entities, 1, "debug")
       IN  /\ SetReg(d.reg)
           /\ last' = [NoCall EXCEPT !.op = "destroy_span", !.entities = entities,
                                     !.calls = d.calls]
           /\ retired' = retired \cup Destroyed(d.reg)
    /\ UNCHANGED <<set, dst, cleared, wrapped, d_coroutine, range_for>>

\* destroy_if<Ts...>(p); where asserts are compiled in, destroy aborts the
\* process at a collected entity that is not valid
DestroyIf(Ts, p) ==
    /\ Call
    /\ \E build \in Builds :
          LET d == destroy_if(Reg, Ts, p, build)
          IN  /\ SetReg(d.reg)
              /\ last' = [NoCall EXCEPT
                             !.op = IF d.abort THEN "destroy_if.abort" ELSE "destroy_if",
                             !.types = Ts, !.pred = p,
                             !.entities = to_delete(Reg, Ts, p),
                             !.calls = d.calls]
              /\ retired' = retired \cup Destroyed(d.reg)
    /\ UNCHANGED <<set, dst, cleared, wrapped, d_coroutine, range_for>>

\* a call that aborts the process: nothing of the registry is seen afterwards
Abort(op, e, T, v) ==
    /\ last' = [NoCall EXCEPT !.op = op, !.entity = e, !.comp = T, !.value = v,
                              !.invalid = ~valid(Reg, e)]
    /\ UNCHANGED <<d_entities, d_pool, d_components, d_on_add, d_on_remove, d_coroutine, range_for>>

\* add<T>(e, v) with an entity that is not valid: assert(valid(entity)) aborts
\* the process where it is compiled in, elsewhere add goes on to the insert; the
\* insert on an occupied index is the one of AddHeld
AddInvalid(e, T, v) ==
    /\ Call
    /\ ~valid(Reg, e)
    /\ \E build \in Builds :
          IF build = "debug" THEN Abort("add.abort", e, T, v)
          ELSE LET a == add(Reg, T, e, v)
               IN  /\ SetReg(a.reg)
                   /\ last' = [NoCall EXCEPT !.op = "add", !.entity = e, !.comp = T,
                                             !.value = v, !.calls = a.calls,
                                             !.invalid = TRUE]
    /\ UNCHANGED <<set, dst, retired, cleared, wrapped, d_coroutine, range_for>>

\* remove<T>(e) with an entity that is not valid
RemoveInvalid(e, T) ==
    /\ Call
    /\ ~valid(Reg, e)
    /\ \E build \in Builds :
          IF build = "debug" THEN Abort("remove.abort", e, T, 0)
          ELSE LET rm == remove(Reg, T, e)
               IN  /\ SetReg(rm.reg)
                   /\ last' = [NoCall EXCEPT !.op = "remove", !.entity = e, !.comp = T,
                                             !.calls = rm.calls, !.invalid = TRUE]
    /\ UNCHANGED <<set, dst, retired, cleared, wrapped, d_coroutine, range_for>>

\* has<T>(e) with an entity that is not valid
HasInvalid(e, T) ==
    /\ Call
    /\ ~valid(Reg, e)
    /\ \E build \in Builds :
          IF build = "debug" THEN Abort("has.abort", e, T, 0)
          ELSE /\ last' = [NoCall EXCEPT !.op = "has", !.entity = e, !.comp = T,
                                         !.ret = has(Reg, T, e), !.invalid = TRUE]
               /\ UNCHANGED <<d_entities, d_pool, d_components, d_on_add, d_on_remove, d_coroutine, range_for>>
    /\ UNCHANGED <<set, dst, retired, cleared, wrapped, d_coroutine, range_for>>

\* get_if<T>(e) with an entity that is not valid: the assert is the one of has
GetIfInvalid(e, T) ==
    /\ Call
    /\ ~valid(Reg, e)
    /\ \E build \in Builds :
          IF build = "debug" THEN Abort("get_if.abort", e, T, 0)
          ELSE /\ last' = [NoCall EXCEPT !.op = "get_if", !.entity = e, !.comp = T,
                                         !.ret = get_if(Reg, T, e), !.invalid = TRUE]
               /\ UNCHANGED <<d_entities, d_pool, d_components, d_on_add, d_on_remove, d_coroutine, range_for>>
    /\ UNCHANGED <<set, dst, retired, cleared, wrapped, d_coroutine, range_for>>

\* destroy(e) with an entity that is not valid
DestroyInvalid(e) ==
    /\ Call
    /\ ~valid(Reg, e)
    /\ \E build \in Builds :
          IF build = "debug"
          THEN Abort("destroy.abort", e, "-", 0) /\ retired' = retired
          ELSE \E d \in destroy_outcomes(Reg, e) :
                  IF d.crash
                  THEN Abort("destroy.abort", e, "-", 0) /\ retired' = retired
                  ELSE /\ SetReg(d.reg)
                       /\ last' = [NoCall EXCEPT !.op = "destroy", !.entity = e,
                                                 !.calls = d.calls, !.invalid = TRUE]
                       /\ retired' = retired \cup Destroyed(d.reg)
    /\ UNCHANGED <<set, dst, cleared, wrapped, d_coroutine, range_for>>

\* copy(e, registry, dst) with an entity that is valid in the registry; where
\* asserts are compiled in, dst.add aborts the process at a new entity that is
\* not valid in dst
Copy(e) ==
    /\ Call
    /\ valid(Reg, e)
    /\ dst.pool # << >> \/ size(dst) < IndexMod
    /\ \E build \in Builds :
          LET c == copy(e, Reg, dst, build)
          IN  /\ dst' = c.dst
              /\ last' = [NoCall EXCEPT !.op = IF c.abort THEN "copy.abort" ELSE "copy",
                                        !.entity = e, !.ret = c.id, !.calls = c.calls]
    /\ UNCHANGED <<d_entities, d_pool, d_components, d_on_add, d_on_remove, set,
                   retired, cleared, wrapped, d_coroutine, range_for>>

\* dst.destroy(e) with an entity that is valid in dst
DstDestroy(e) ==
    /\ Call
    /\ valid(dst, e)
    /\ dst' = destroy(dst, e).reg
    /\ last' = [NoCall EXCEPT !.op = "dst.destroy", !.entity = e]
    /\ UNCHANGED <<d_entities, d_pool, d_components, d_on_add, d_on_remove, set,
                   retired, cleared, wrapped, d_coroutine, range_for>>

\* apx::create_from(registry)
CreateFrom ==
    /\ Call
    /\ d_pool # << >> \/ size(Reg) < IndexMod
    /\ LET c == create_from(Reg)
       IN  /\ SetReg(c.reg)
           /\ last' = [NoCall EXCEPT !.op = "create_from", !.entity = c.handle.d_entity,
                                     !.ret = c.handle]
           /\ wrapped' = (wrapped \/ c.wrap)
    /\ UNCHANGED <<set, dst, retired, cleared, d_coroutine, range_for>>

\* handle{registry, e}.valid()
HandleValid(e) ==
    /\ Call
    /\ last' = [NoCall EXCEPT !.op = "handle.valid", !.entity = e,
                              !.ret = handle_valid(Reg, handle(e))]
    /\ UNCHANGED <<d_entities, d_pool, d_components, d_on_add, d_on_remove, set, dst,
                   retired, cleared, wrapped, d_coroutine, range_for>>

\* handle{registry, e}.destroy()
HandleDestroy(e) ==
    /\ Call
    /\ valid(Reg, e)
    /\ LET d == handle_destroy(Reg, handle(e))
       IN  /\ SetReg(d.reg)
           /\ last' = [NoCall EXCEPT !.op = "handle.destroy", !.entity = e,
                                     !.calls = d.calls]
    /\ retired' = retired \cup {e}
    /\ UNCHANGED <<set, dst, cleared, wrapped, d_coroutine, range_for>>

\* handle{registry, e}.add<T>(v)
HandleAdd(e, T, v) ==
    /\ Call
    /\ valid(Reg, e)
    /\ ~has(Reg, T, e)
    /\ LET a == handle_add(Reg, handle(e), T, v)
       IN  /\ SetReg(a.reg)
           /\ last' = [NoCall EXCEPT !.op = "handle.add", !.entity = e, !.comp = T,
                                     !.value = v, !.calls = a.calls]
    /\ UNCHANGED <<set, dst, retired, cleared, wrapped, d_coroutine, range_for>>

\* handle{registry, e}.emplace<T>(args...)
HandleEmplace(e, T, v) ==
    /\ Call
    /\ valid(Reg, e)
    /\ ~has(Reg, T, e)
    /\ LET a == handle_emplace(Reg, handle(e), T, v)
       IN  /\ SetReg(a.reg)
           /\ last' = [NoCall EXCEPT !.op = "handle.emplace", !.entity = e, !.comp = T,
                                     !.value = v, !.calls = a.calls]
    /\ UNCHANGED <<set, dst, retired, cleared, wrapped, d_coroutine, range_for>>

\* handle{registry, e}.remove<T>()
HandleRemove(e, T) ==
    /\ Call
    /\ valid(Reg, e)
    /\ LET rm == handle_remove(Reg, handle(e), T)
       IN  /\ SetReg(rm.reg)
           /\ last' = [NoCall EXCEPT !.op = "handle.remove", !.entity = e, !.comp = T,
                                     !.calls = rm.calls]
    /\ UNCHANGED <<set, dst, retired, cleared, wrapped, d_coroutine, range_for>>

\* handle{registry, e}.has<T>()
HandleHas(e, T) ==
    /\ Call
    /\ valid(Reg, e)
    /\ last' = [NoCall EXCEPT !.op = "handle.has", !.entity = e, !.comp = T,
                              !.ret = handle_has(Reg, handle(e), T)]
    /\ UNCHANGED <<d_entities, d_pool, d_components, d_on_add, d_on_remove, set, dst,
                   retired, cleared, wrapped, d_coroutine, range_for>>

\* handle{registry, e}.get<T>() on an entity that has T
HandleGet(e, T) ==
    /\ Call
    /\ valid(Reg, e)
    /\ has(Reg, T, e)
    /\ last' = [NoCall EXCEPT !.op = "handle.get", !.entity = e, !.comp = T,
                              !.ret = handle_get(Reg, handle(e), T)]
    /\ UNCHANGED <<d_entities, d_pool, d_components, d_on_add, d_on_remove, set, dst,
                   retired, cleared, wrapped, d_coroutine, range_for>>

\* handle{registry, e}.get_if<T>()
HandleGetIf(e, T) ==
    /\ Call
    /\ valid(Reg, e)
    /\ last' = [NoCall EXCEPT !.op = "handle.get_if", !.entity = e, !.comp = T,
                              !.ret = handle_get_if(Reg, handle(e), T)]
    /\ UNCHANGED <<d_entities, d_pool, d_components, d_on_add, d_on_remove, set, dst,
                   retired, cleared, wrapped, d_coroutine, range_for>>

Next ==
    \/ Create
    \/ \E e \in EntityValues : Destroy(e)
    \/ Clear
    \/ \E e \in EntityValues, T \in CompSet : \E v \in ValuesOf(T) : Add(e, T, v)
    \/ \E e \in EntityValues, T \in CompSet : \E v \in ValuesOf(T) : Emplace(e, T, v)
    \/ \E e \in EntityValues, T \in CompSet : Remove(e, T)
    \/ \E T \in CompSet : OnRemove(T)
    \/ \E e \in EntityValues : Valid(e)
    \/ \E Ts \in TypeLists : View(Ts)

Spec == Init /\ [][Next]_vars

(* ---------------- the registry with both notification lists ------------- *)

NextNotify ==
    \/ Create
    \/ \E e \in EntityValues : Destroy(e)
    \/ Clear
    \/ Destructor
    \/ \E e \in EntityValues, T \in CompSet : \E v \in ValuesOf(T) : Add(e, T, v)
    \/ \E e \in EntityValues, T \in CompSet : \E v \in ValuesOf(T) : Emplace(e, T, v)
    \/ \E e \in EntityValues, T \in CompSet : Remove(e, T)
    \/ \E T \in CompSet : OnAdd(T)
    \/ \E T \in CompSet : OnRemove(T)

SpecNotify == Init /\ [][NextNotify]_vars

(* ------------------------------ searching ------------------------------ *)

NextQuery ==
    \/ Create
    \/ \E e \in EntityValues : Destroy(e)
    \/ \E e \in EntityValues, T \in CompSet : \E v \in ValuesOf(T) : Add(e, T, v)
    \/ \E e \in EntityValues, T \in CompSet : Remove(e, T)
    \/ \E e \in EntityValues, T \in CompSet : GetIf(e, T)
    \/ \E Ts \in TypeLists, p \in Preds : Find(Ts, p)

SpecQuery == Init /\ [][NextQuery]_vars

(* -------------------------- destroying in bulk -------------------------- *)

NextBulk ==
    \/ Create
    \/ \E e \in EntityValues, T \in CompSet : \E v \in ValuesOf(T) : Add(e, T, v)
    \/ \E Ts \in TypeLists, p \in Preds : DestroyIf(Ts, p)
    \/ \E slots \in DistinctSeqs(Slots) : DestroySpan(slots)

SpecBulk == Init /\ [][NextBulk]_vars

(* ------------------- calls that break a precondition -------------------- *)

NextMisuse ==
    \/ Create
    \/ \E e \in EntityValues : Destroy(e)
    \/ \E e \in EntityValues, T \in CompSet : \E v \in ValuesOf(T) : Add(e, T, v)
    \/ \E e \in EntityValues, T \in CompSet : \E v \in ValuesOf(T) : Emplace(e, T, v)
    \/ \E e \in EntityValues, T \in CompSet : \E v \in ValuesOf(T) : AddHeld(e, T, v)
    \/ \E e \in EntityValues, T \in CompSet : \E v \in ValuesOf(T) : EmplaceHeld(e, T, v)
    \/ \E e \in EntityValues, T \in CompSet : Remove(e, T)

SpecMisuse == Init /\ [][NextMisuse]_vars

(* ------------------ calls with an entity that is not valid --------------- *)

NextInvalid ==
    \/ Create
    \/ \E e \in EntityValues : Destroy(e)
    \/ \E e \in EntityValues, T \in CompSet : \E v \in ValuesOf(T) : Add(e, T, v)
    \/ \E e \in EntityValues, T \in CompSet : \E v \in ValuesOf(T) : AddInvalid(e, T, v)
    \/ \E e \in EntityValues, T \in CompSet : RemoveInvalid(e, T)
    \/ \E e \in EntityValues, T \in CompSet : HasInvalid(e, T)
    \/ \E e \in EntityValues, T \in CompSet : GetIfInvalid(e, T)
    \/ \E e \in EntityValues : DestroyInvalid(e)

SpecInvalid == Init /\ [][NextInvalid]_vars

(* --------------------- copying into a second registry ------------------- *)

NextCopy ==
    \/ Create
    \/ \E e \in EntityValues, T \in CompSet : \E v \in ValuesOf(T) : Add(e, T, v)
    \/ \E e \in EntityValues : Copy(e)
    \/ \E e \in EntityValues : DstDestroy(e)

SpecCopy == Init /\ [][NextCopy]_vars

(* ------------------------------- handles ------------------------------- *)

NextHandle ==
    \/ CreateFrom
    \/ \E T \in CompSet : OnAdd(T)
    \/ \E T \in CompSet : OnRemove(T)
    \/ \E e \in EntityValues : HandleValid(e)
    \/ \E e \in EntityValues : HandleDestroy(e)
    \/ \E e \in EntityValues, T \in CompSet : \E v \in ValuesOf(T) : HandleAdd(e, T, v)
    \/ \E e \in EntityValues, T \in CompSet : \E v \in ValuesOf(T) : HandleEmplace(e, T, v)
    \/ \E e \in EntityValues, T \in CompSet : HandleRemove(e, T)
    \/ \E e \in EntityValues, T \in CompSet : HandleHas(e, T)
    \/ \E e \in EntityValues, T \in CompSet : HandleGet(e, T)
    \/ \E e \in EntityValues, T \in CompSet : HandleGetIf(e, T)

SpecHandle == Init /\ [][NextHandle]_vars

(* ------------------------- the pool and the entity set ------------------ *)

NextPool ==
    \/ Create
    \/ \E e \in EntityValues : Destroy(e)
    \/ Clear
    \/ \E Ts \in TypeLists, p \in Preds : DestroyIf(Ts, p)
    \/ \E slots \in DistinctSeqs(Slots) : DestroySpan(slots)

SpecPool == Init /\ [][NextPool]_vars

(* --------------------- the stand-alone sparse_set ---------------------- *)

SetIndices == 0..MaxIndex

SetInsert(i, v) ==
    /\ ~ss_has(set, i)
    /\ set' = ss_insert(set, i, v)
    /\ last' = [NoCall EXCEPT !.op = "set.insert", !.entity = i, !.value = v]
    /\ UNCHANGED <<d_entities, d_pool, d_components, d_on_add, d_on_remove, dst,
                   retired, cleared, wrapped, ncalls, d_coroutine, range_for>>

SetEmplace(i, v) ==
    /\ ~ss_has(set, i)
    /\ set' = ss_emplace(set, i, v)
    /\ last' = [NoCall EXCEPT !.op = "set.emplace", !.entity = i, !.value = v]
    /\ UNCHANGED <<d_entities, d_pool, d_components, d_on_add, d_on_remove, dst,
                   retired, cleared, wrapped, ncalls, d_coroutine, range_for>>

SetErase(i) ==
    /\ ss_has(set, i)
    /\ set' = ss_erase(set, i)
    /\ last' = [NoCall EXCEPT !.op = "set.erase", !.entity = i, !.value = ss_at(set, i)]
    /\ UNCHANGED <<d_entities, d_pool, d_components, d_on_add, d_on_remove, dst,
                   retired, cleared, wrapped, ncalls, d_coroutine, range_for>>

SetEraseIfExists(i) ==
    /\ set' = ss_erase_if_exists(set, i)
    /\ last' = [NoCall EXCEPT !.op = "set.erase_if_exists", !.entity = i]
    /\ UNCHANGED <<d_entities, d_pool, d_components, d_on_add, d_on_remove, dst,
                   retired, cleared, wrapped, ncalls, d_coroutine, range_for>>

SetClear ==
    /\ set' = ss_clear(set)
    /\ last' = [NoCall EXCEPT !.op = "set.clear"]
    /\ UNCHANGED <<d_entities, d_pool, d_components, d_on_add, d_on_remove, dst,
                   retired, cleared, wrapped, ncalls, d_coroutine, range_for>>

NextSet ==
    \/ \E i \in SetIndices, v \in 1..MaxValue : SetInsert(i, v)
    \/ \E i \in SetIndices, v \in 1..MaxValue : SetEmplace(i, v)
    \/ \E i \in SetIndices : SetErase(i)
    \/ \E i \in SetIndices : SetEraseIfExists(i)
    \/ SetClear

SpecSet == Init /\ [][NextSet]_vars

(* ------------------------------ generator ------------------------------ *)

\* the longest coroutine body: the number of its co_yield statements
MaxYields == 3

\* the bodies of a finite coroutine: co_yield values[1]; ... co_yield values[n];
Bodies == UNION {[1..n -> 1..MaxValue] : n \in 0..MaxYields}

\* calling a coroutine function: get_return_object() wraps the handle of a frame
\* that initial_suspend() (suspend_always) leaves before the first statement
coroutine(kind, values, throws) ==
    [NoCoroutine EXCEPT !.kind = kind, !.values = values, !.throws = throws]

\* the coroutine has run off its end (or thrown): final_suspend(), done() holds
\* and unhandled_exception() has stored what it threw
finish(co) == [co EXCEPT !.started = TRUE, !.done = TRUE, !.d_exception = co.throws]

\* yield_value(value): d_val = addressof(value), then suspend_always
yield_value(co, value) == [co EXCEPT !.started = TRUE, !.d_val = value]

\* resuming a body of co_yield statements: the next statement, or the end
values_resume(co) ==
    IF co.pc < Len(co.values)
    THEN yield_value([co EXCEPT !.pc = co.pc + 1], co.values[co.pc + 1])
    ELSE finish(co)

\* safe() scanning the dense array instead of the sparse one
packed_resume(co, s) ==
    LET it == co.pc
    IN  IF it < Len(s.packed)
        THEN yield_value([co EXCEPT !.pc = it + 1], s.packed[it + 1])
        ELSE finish(co)

\* resuming sparse_set::safe(): for (auto index : d_sparse) if (index != EMPTY)
\* co_yield d_packed[index]; the range-for takes begin() and end() of d_sparse
\* when it is entered, pc is the position the iterator moves on to
safe_resume(co, s) ==
    LET end  == IF co.started THEN co.end ELSE Len(s.sparse)
        hits == {it \in co.pc..(end - 1) : s.sparse[it + 1] # EMPTY}
    IN  IF hits = {} THEN finish([co EXCEPT !.pc = end, !.end = end])
        ELSE LET it == CHOOSE i \in hits : \A j \in hits : i <= j
             IN  yield_value([co EXCEPT !.pc = it + 1, !.end = end],
                             s.packed[s.sparse[it + 1] + 1])

\* coroutine_handle::resume(): run to the next co_yield or to the end
resume(co, s) ==
    IF co.kind = "safe" THEN safe_resume(co, s) ELSE values_resume(co)

\* advance() that resumes the coroutine twice
generator_advance_twice(co, s) ==
    IF co.kind = "none" THEN co
    ELSE LET once == resume(co, s)
         IN  IF once.done THEN once ELSE resume(once, s)

\* generator::advance(): if (d_coroutine) { resume(); if (done()) rethrow_if(); }
generator_advance(co, s) ==
    IF co.kind = "none" THEN co ELSE resume(co, s)

\* rethrow_if() at the end of advance(): the stored exception leaves advance()
rethrows(co) == co.kind # "none" /\ co.done /\ co.d_exception

\* generator::valid(): d_coroutine && !d_coroutine.done()
generator_valid(co) == co.kind # "none" /\ ~co.done

\* generator::value(): *d_val
generator_value(co) == co.d_val

\* generator::begin(): advance(), then an iterator on this generator
generator_begin(co, s) == generator_advance(co, s)

\* operator==(it, sentinel): !it.d_owner->valid()
iterator_is_end(co) == ~generator_valid(co)

\* generator_iterator::operator++(): d_owner->advance()
iterator_increment(co, s) == generator_advance(co, s)

\* generator_iterator::operator*(): d_owner->value()
iterator_deref(co) == generator_value(co)

\* the loop of each(f), for (auto& val : *this) f(val), from the iterator begin()
\* returned on: the values f is applied to and whether an exception ended it
RECURSIVE each_from(_, _, _)
each_from(co, s, applied) ==
    IF iterator_is_end(co) THEN [applied |-> applied, thrown |-> rethrows(co)]
    ELSE each_from(iterator_increment(co, s), s, Append(applied, iterator_deref(co)))

\* generator::each(f)
each(co, s) == each_from(generator_begin(co, s), s, << >>)

\* no range-for is running over a generator
Idle == range_for.phase \in {"none", "exited", "thrown", "each"}

GeneratorFrame ==
    UNCHANGED <<d_entities, d_pool, d_components, d_on_add, d_on_remove, dst, last,
                retired, cleared, wrapped, ncalls>>

\* one step of the loop by advance(): on to the test, or out by the exception,
\* which destroys the temporary generator and its coroutine
Advanced(co) ==
    /\ d_coroutine' = IF rethrows(co) THEN NoCoroutine ELSE co
    /\ range_for' = [range_for EXCEPT
                        !.phase   = IF rethrows(co) THEN "thrown" ELSE "test",
                        !.resumes = @ + 1]

\* the range expression ints(): a coroutine with the given body
Ints(values, throws) ==
    /\ Idle
    /\ d_coroutine' = coroutine("values", values, throws)
    /\ range_for' = [NoLoop EXCEPT !.phase = "created", !.values = values]
    /\ UNCHANGED set
    /\ GeneratorFrame

\* the range expression set.safe()
Safe ==
    /\ Idle
    /\ d_coroutine' = coroutine("safe", << >>, FALSE)
    /\ range_for' = [NoLoop EXCEPT !.phase = "created", !.start = set.packed]
    /\ UNCHANGED set
    /\ GeneratorFrame

\* the range-for is entered: begin()
Begin ==
    /\ range_for.phase = "created"
    /\ Advanced(generator_begin(d_coroutine, set))
    /\ UNCHANGED set
    /\ GeneratorFrame

\* it != end() holds and the loop body runs on *it; the body of a loop over
\* safe() may erase the element it was handed, as clear() does through destroy
Body(erases) ==
    /\ range_for.phase = "test"
    /\ ~iterator_is_end(d_coroutine)
    /\ erases => d_coroutine.kind = "safe"
    /\ range_for' = [range_for EXCEPT !.phase = "increment",
                                      !.seen  = Append(@, iterator_deref(d_coroutine))]
    /\ set' = IF erases THEN ss_erase(set, iterator_deref(d_coroutine)[1]) ELSE set
    /\ UNCHANGED d_coroutine
    /\ GeneratorFrame

\* ++it at the end of a round of the loop
Increment ==
    /\ range_for.phase = "increment"
    /\ Advanced(iterator_increment(d_coroutine, set))
    /\ UNCHANGED set
    /\ GeneratorFrame

\* it == end(): the loop is left and the temporary generator destroyed
LoopEnd ==
    /\ range_for.phase = "test"
    /\ iterator_is_end(d_coroutine)
    /\ d_coroutine' = NoCoroutine
    /\ range_for' = [range_for EXCEPT !.phase = "exited"]
    /\ UNCHANGED set
    /\ GeneratorFrame

\* ints().each(f) with an f that records its argument
Each ==
    /\ range_for.phase = "created"
    /\ LET run == each(d_coroutine, set)
       IN  range_for' = [range_for EXCEPT
                            !.phase   = IF run.thrown THEN "thrown" ELSE "each",
                            !.seen    = run.applied,
                            !.resumes = Len(run.applied) + 1]
    /\ d_coroutine' = NoCoroutine
    /\ UNCHANGED set
    /\ GeneratorFrame

Loop == Begin \/ (\E erases \in BOOLEAN : Body(erases)) \/ Increment \/ LoopEnd

NextGenerator ==
    \/ \E values \in Bodies, throws \in BOOLEAN : Ints(values, throws)
    \/ Begin
    \/ Body(FALSE)
    \/ Increment
    \/ LoopEnd
    \/ Each

SpecGenerator == Init /\ [][NextGenerator]_vars /\ WF_vars(Loop \/ Each)

(* ------------------ a loop over safe() that erases ------------------- *)

\* the element kept at index i
ElementAt(i) == (i % MaxValue) + 1

\* set.insert(i, v) before the loop
Fill(i) ==
    /\ Idle
    /\ ~ss_has(set, i)
    /\ set' = ss_insert(set, i, ElementAt(i))
    /\ UNCHANGED <<d_coroutine, range_for>>
    /\ GeneratorFrame

\* set.erase(i) before the loop
Drop(i) ==
    /\ Idle
    /\ ss_has(set, i)
    /\ set' = ss_erase(set, i)
    /\ UNCHANGED <<d_coroutine, range_for>>
    /\ GeneratorFrame

NextSafe ==
    \/ \E i \in SetIndices : Fill(i)
    \/ \E i \in SetIndices : Drop(i)
    \/ Safe
    \/ Begin
    \/ \E erases \in BOOLEAN : Body(erases)
    \/ Increment
    \/ LoopEnd

SpecSafe == Init /\ [][NextSafe]_vars /\ WF_vars(Loop)

(* ------------------------------- claims ------------------------------- *)

\* the indices a sparse_set can be asked about, one past the largest used included
Occupied(s) == {i \in 0..(MaxIndex + MaxCalls + 1) : ss_has(s, i)}

\* (a) an occupied index points at a dense position that holds that index,
\* (b) every dense position is pointed at by the index it holds,
\* (c) any other sparse entry is EMPTY, (d) size() counts the occupied indices
Consistent(s) ==
    /\ \A i \in Occupied(s) :
          /\ s.sparse[i + 1] \in 0..(Len(s.packed) - 1)
          /\ s.packed[s.sparse[i + 1] + 1][1] = i
    /\ \A p \in 1..Len(s.packed) :
          /\ s.packed[p][1] < Len(s.sparse)
          /\ s.sparse[s.packed[p][1] + 1] = p - 1
    /\ \A k \in 1..Len(s.sparse) :
          (k - 1) \notin Occupied(s) => s.sparse[k] = EMPTY
    /\ ss_size(s) = Cardinality(Occupied(s))

\* C8: after any sequence of insert, emplace, erase, erase_if_exists and clear the
\* sparse and the dense array of a sparse_set agree: occupied indices point at
\* their own dense pair, no index occurs twice in the dense array, every other
\* sparse entry is EMPTY, and size() is the number of occupied indices.
C8_SparseDenseConsistent == Consistent(set)

\* C8 witness: erase has taken an index out of a set that keeps two others, the
\* first dense pair being one that was inserted after the second
C8_Witness ==
    /\ last.op = "set.erase"
    /\ ~ss_has(set, last.entity)
    /\ last.entity < Len(set.sparse)
    /\ ss_size(set) = 2
    /\ set.packed[1][1] = 2 /\ set.packed[2][1] = 1 /\ last.entity = 0

\* the entities held by the entity set, and the values valid() accepts
LiveEntities == {d_entities.packed[p][2] : p \in 1..Len(d_entities.packed)}

ValidEntities(r) == {e \in EntityValues : valid(r, e)}

NoDuplicates(seq) == \A p, q \in 1..Len(seq) : p # q => seq[p] # seq[q]

Range(seq) == {seq[p] : p \in 1..Len(seq)}

C2_ValidTotal ==
    /\ \A e \in EntityValues :
         LET v == valid_eval(Reg, e)
         IN  /\ v.fail = FALSE
             /\ e = null => v.ret = FALSE
             /\ e # null =>
                  (v.ret <=> \E p \in 1..Len(d_entities.packed) :
                                /\ d_entities.packed[p][1] = split(e)[1]
                                /\ split(d_entities.packed[p][2]) = split(e))
    /\ last.op = "valid" => last.ret = valid_eval(Reg, last.entity)

\* C2 witness: valid() was asked about a destroyed entity whose slot is free
C2_Witness ==
    /\ last.op = "valid"
    /\ last.entity \in retired
    /\ to_index(last.entity) < Len(d_entities.sparse)
    /\ ~ss_has(d_entities, to_index(last.entity))
    /\ last.ret = [ret |-> FALSE, fail |-> FALSE]

\* slot indices some entity handed out so far had
UsedSlots == {to_index(e) : e \in retired \cup LiveEntities}

\* slot indices of the live and of the pooled entities
SlotsInUse == {to_index(e) : e \in LiveEntities \cup Range(d_pool)}

\* what create() does with the pool and the entity set, a new slot index being
\* one outside taken
CreateStep(taken) ==
    last'.op = "create" =>
        /\ IF d_pool # << >>
           THEN /\ last'.entity = combine(split(d_pool[1])[1],
                                          (split(d_pool[1])[2] + 1) % VersionMod)
                /\ d_pool' = Tail(d_pool)
           ELSE /\ last'.entity = combine(size(Reg), 0)
                /\ size(Reg) \notin taken
                /\ d_pool' = d_pool
        /\ ss_has(d_entities', to_index(last'.entity))
        /\ ss_at(d_entities', to_index(last'.entity)) = last'.entity
        /\ d_entities'.packed[Len(d_entities'.packed)]
              = <<to_index(last'.entity), last'.entity>>

C4_Destroy ==
    [][last'.op = "destroy" =>
          LET e == last'.entity
          IN  /\ valid(Reg, e)
              /\ ~valid(Reg', e)
              /\ \A T \in CompSet : ~ss_has(d_components'[T], to_index(e))
              /\ d_pool' = Append(d_pool, e)
              /\ size(Reg') = size(Reg) - 1
              /\ \A k \in 1..Len(last'.calls) :
                    last'.calls[k].valid /\ last'.calls[k].has]_vars

\* C4 witness: an entity with a component and a registered callback was destroyed
C4_Witness ==
    /\ last.op = "destroy"
    /\ Len(last.calls) >= 1
    /\ d_pool # << >> /\ d_pool[Len(d_pool)] = last.entity
    /\ size(Reg) >= 1

\* C5: size() is the number of entity values valid() accepts; create() adds one,
\* destroy() takes one away and clear() makes it 0.
C5_SizeAccounting ==
    /\ [](size(Reg) = Cardinality(ValidEntities(Reg)))
    /\ [][/\ last'.op = "create" => size(Reg') = size(Reg) + 1
          /\ last'.op = "destroy" => size(Reg') = size(Reg) - 1
          /\ last'.op = "clear" => size(Reg') = 0]_vars

\* C6: after add or emplace the entity has the component with the value given;
\* a component stays with its value over every call that is not remove<T>(e),
\* destroy(e) or clear(); after remove<T>(e) the entity does not have T.
C6_RoundTrip ==
    [][/\ last'.op \in {"add", "emplace"} =>
             /\ has(Reg', last'.comp, last'.entity)
             /\ get(Reg', last'.comp, last'.entity) = last'.value
       /\ last'.op = "remove" => ~has(Reg', last'.comp, last'.entity)
       /\ \A e \in ValidEntities(Reg), T \in CompSet :
             (/\ has(Reg, T, e)
              /\ ~(last'.op = "remove" /\ last'.entity = e /\ last'.comp = T)
              /\ ~(last'.op = "destroy" /\ last'.entity = e)
              /\ last'.op # "clear")
             => /\ valid(Reg', e)
                /\ has(Reg', T, e)
                /\ get(Reg', T, e) = get(Reg, T, e)]_vars

\* C6 witness: a component was removed from the front of a store and the other
\* entity in it still reads the value it was given
C6_Witness ==
    /\ last.op = "remove"
    /\ last.comp = "foo"
    /\ ss_size(d_components["foo"]) = 1
    /\ \E e \in ValidEntities(Reg) :
          /\ to_index(e) > to_index(last.entity)
          /\ has(Reg, "foo", e)
          /\ get(Reg, "foo", e) = 2

\* C7: remove<T>(e) on an entity without T invokes no callback and leaves the
\* stores, the entity set, the pool and the callback lists as they were.
C7_RemoveAbsentIsNoOp ==
    [][(last'.op = "remove" /\ ~has(Reg, last'.comp, last'.entity)) =>
          /\ last'.calls = << >>
          /\ UNCHANGED <<d_entities, d_pool, d_components, d_on_add, d_on_remove, d_coroutine, range_for>>]_vars

\* C7 witness: remove ran for a type with a registered callback and called nothing
C7_Witness ==
    /\ last.op = "remove"
    /\ d_on_remove[last.comp] >= 1
    /\ last.calls = << >>
    /\ valid(Reg, last.entity)

\* C9: view<T1..Tn>() trips no assert and yields, each once, exactly the valid
\* entities that have every Ti; view<>() and all() yield every valid entity once.
C9_ViewCorrect ==
    /\ \A Ts \in TypeLists :
          LET v == view_eval(Reg, Ts)
          IN  /\ v.fail = FALSE
              /\ NoDuplicates(v.ret)
              /\ Range(v.ret) = {e \in ValidEntities(Reg) :
                                    \A k \in 1..Len(Ts) : has(Reg, Ts[k], e)}
    /\ NoDuplicates(all(Reg))
    /\ Range(all(Reg)) = ValidEntities(Reg)
    /\ last.op = "view" => last.ret = view_eval(Reg, last.types)

\* C10: remove<T>(e) on an entity that has T invokes the on_remove<T> callbacks,
\* each once and no other, with e and the stored value, while has<T>(e) is still
\* true and get<T>(e) still reads that value; afterwards has<T>(e) is false.
C10_RemoveNotifiesBeforeErase ==
    [][(last'.op = "remove" /\ has(Reg, last'.comp, last'.entity)) =>
          /\ Len(last'.calls) = d_on_remove[last'.comp]
          /\ \A k \in 1..Len(last'.calls) :
                last'.calls[k] = [cb     |-> k,
                                  comp   |-> last'.comp,
                                  entity |-> last'.entity,
                                  value  |-> get(Reg, last'.comp, last'.entity),
                                  has    |-> TRUE,
                                  valid  |-> TRUE]
          /\ ~has(Reg', last'.comp, last'.entity)]_vars

\* C10 witness: two callbacks were invoked by one remove
C10_Witness ==
    /\ last.op = "remove"
    /\ Len(last.calls) = 2
    /\ last.calls[1].cb = 1 /\ last.calls[2].cb = 2
    /\ last.calls[1].value = 2

\* the number of invocations of the k-th callback for type T and entity e in calls
Invocations(calls, T, k, e) ==
    Cardinality({i \in 1..Len(calls) :
                    calls[i].comp = T /\ calls[i].cb = k /\ calls[i].entity = e})

\* C11: destroy(e) invokes each on_remove<T> callback once for every type T that
\* e holds and none for a type e lacks; each invocation is handed e and the stored
\* value and runs while valid(e) is true and the component is in its store.
C11_DestroyNotifies ==
    [][last'.op = "destroy" =>
          LET e     == last'.entity
              calls == last'.calls
          IN  /\ \A T \in CompSet : \A k \in 1..d_on_remove[T] :
                    Invocations(calls, T, k, e) = IF has(Reg, T, e) THEN 1 ELSE 0
              /\ \A i \in 1..Len(calls) :
                    /\ calls[i].entity = e
                    /\ calls[i].cb \in 1..d_on_remove[calls[i].comp]
                    /\ calls[i].value = get(Reg, calls[i].comp, e)
                    /\ calls[i].has
                    /\ calls[i].valid
              /\ ~valid(Reg', e)]_vars

\* C11 witness: an entity holding foo alone was destroyed while callbacks were
\* registered for foo and for bar
C11_Witness ==
    /\ last.op = "destroy"
    /\ d_on_remove["foo"] >= 1 /\ d_on_remove["bar"] >= 1
    /\ Len(last.calls) = d_on_remove["foo"]
    /\ last.calls[1].comp = "foo" /\ last.calls[1].valid
    /\ d_pool[Len(d_pool)] = last.entity

\* C12: add<T>(e, v) and emplace<T>(e, ...) invoke the on_add<T> callbacks, each
\* once and in the order of registration, with e and the value just stored, after
\* the insertion (has<T>(e) is true when they run); no callback of another type
\* is invoked.
C12_AddNotifies ==
    [][last'.op \in {"add", "emplace"} =>
          /\ last'.calls = [k \in 1..d_on_add[last'.comp] |->
                               [cb     |-> k,
                                comp   |-> last'.comp,
                                entity |-> last'.entity,
                                value  |-> last'.value,
                                has    |-> TRUE,
                                valid  |-> TRUE]]
          /\ ~has(Reg, last'.comp, last'.entity)
          /\ get(Reg', last'.comp, last'.entity) = last'.value]_vars

\* C12 witness: emplace<foo> ran two on_add<foo> callbacks in the order of their
\* registration while an on_add<bar> callback was registered too
C12_Witness ==
    /\ last.op = "emplace"
    /\ last.comp = "foo"
    /\ d_on_add["bar"] >= 1
    /\ Len(last.calls) = 2
    /\ last.calls[1].cb = 1 /\ last.calls[2].cb = 2
    /\ last.calls[1].value = last.value /\ last.calls[1].has

\* a store, the entity set included, that holds nothing
Vacant(s) == ss_size(s) = 0 /\ \A k \in 1..Len(s.sparse) : s.sparse[k] = EMPTY

\* the (entity, type) pairs of the registry whose type has an on_remove callback
Notifiable == {pair \in Range(all(Reg)) \X CompSet :
                  has(Reg, pair[2], pair[1]) /\ d_on_remove[pair[2]] >= 1}

C15_GetIf ==
    /\ [](\A e \in ValidEntities(Reg), T \in CompSet :
             LET g == get_if(Reg, T, e)
             IN  /\ g.fail = FALSE
                 /\ (g.ptr = nullptr) <=> ~has(Reg, T, e)
                 /\ g.ptr # nullptr =>
                       /\ g.ptr[1] = T
                       /\ g.ptr[2] \in 0..(ss_size(d_components[T]) - 1)
                       /\ d_components[T].packed[g.ptr[2] + 1][1] = to_index(e)
                       /\ deref(Reg, g.ptr) = get(Reg, T, e))
    /\ [][last'.op = "get_if" =>
             /\ last'.ret = get_if(Reg, last'.comp, last'.entity)
             /\ UNCHANGED <<d_entities, d_pool, d_components, d_on_add, d_on_remove, d_coroutine, range_for>>]_vars

\* C15 witness: get_if<foo> returned the address of the second dense pair of
\* foo's store, for an entity that does not have bar
C15_Witness ==
    /\ last.op = "get_if"
    /\ last.ret = [ptr |-> <<"foo", 1>>, fail |-> FALSE]
    /\ get_if(Reg, "bar", last.entity).ptr = nullptr
    /\ deref(Reg, last.ret.ptr) = 2

\* C16: find<Ts...>(p) returns the first entity of view<Ts...>(), in its order,
\* that satisfies p, and the null sentinel exactly when no entity of the view
\* satisfies p; with the default predicate it is the first entity of the view;
\* the call changes nothing.
C16_Find ==
    /\ [](\A Ts \in TypeLists, p \in Preds :
             LET v == view(Reg, Ts)
                 f == find(Reg, Ts, p)
             IN  /\ (f = null) <=> (\A k \in 1..Len(v) : ~Pred(p, Reg, v[k]))
                 /\ f # null =>
                       \E k \in 1..Len(v) :
                          /\ v[k] = f
                          /\ Pred(p, Reg, f)
                          /\ \A j \in 1..(k - 1) : ~Pred(p, Reg, v[j])
                 /\ (p = "any" /\ Len(v) > 0) => f = v[1])
    /\ [][last'.op = "find" =>
             /\ last'.ret = find(Reg, last'.types, last'.pred)
             /\ UNCHANGED <<d_entities, d_pool, d_components, d_on_add, d_on_remove, d_coroutine, range_for>>]_vars

\* a valid entity and its components are in Reg' what they are in Reg
Untouched(e) ==
    /\ valid(Reg', e)
    /\ \A T \in CompSet :
          /\ has(Reg', T, e) <=> has(Reg, T, e)
          /\ has(Reg, T, e) => get(Reg', T, e) = get(Reg, T, e)

\* C17: destroy_if<Ts...>(p) destroys exactly the entities of view<Ts...>() that
\* satisfy p on the registry as it is before the call: each of them is invalid
\* afterwards, every other valid entity is still valid with its components
\* unchanged, and size() has dropped by their number.
C17_DestroyIf ==
    [][last'.op \in {"destroy_if", "destroy_if.abort"} =>
          LET collected == {e \in Range(view(Reg, last'.types)) :
                               Pred(last'.pred, Reg, e)}
          IN  /\ \A e \in collected : ~valid(Reg', e)
              /\ \A e \in ValidEntities(Reg) \ collected : Untouched(e)
              /\ size(Reg') = size(Reg) - Cardinality(collected)]_vars

\* C18: destroy(entities) with pairwise different valid entities leaves all of
\* them invalid and every other valid entity untouched, takes their number off
\* size() and appends them to the pool in the order given, so that create()
\* reuses their slots in that order.
C18_DestroySpan ==
    [][last'.op = "destroy_span" =>
          LET entities == last'.entities
          IN  /\ \A k \in 1..Len(entities) :
                    /\ ~valid(Reg', entities[k])
                    /\ \A T \in CompSet : ~has(Reg', T, entities[k])
              /\ \A e \in ValidEntities(Reg) \ Range(entities) : Untouched(e)
              /\ size(Reg') = size(Reg) - Len(entities)
              /\ d_pool' = d_pool \o entities
              /\ (d_pool = << >> /\ entities # << >>) =>
                    to_index(create(Reg').id) = to_index(entities[1])]_vars

\* C18 witness: two entities were destroyed in one call, the one at the higher
\* slot first, while a third one stayed
C18_Witness ==
    /\ last.op = "destroy_span"
    /\ Len(last.entities) = 2
    /\ to_index(last.entities[1]) > to_index(last.entities[2])
    /\ d_pool = last.entities
    /\ size(Reg) = 1

\* C19: create() never returns the null sentinel, and valid(null) is false.
C19_NullNeverIssued ==
    /\ last.op = "create" => last.entity # null
    /\ null \notin LiveEntities
    /\ valid_eval(Reg, null) = [ret |-> FALSE, fail |-> FALSE]

\* C20: add<T>(e, v) and emplace<T>(e, ...) on a valid entity that has T already
\* change no store and invoke no on_add callback.
C20_AddHeldChangesNothing ==
    [][(/\ last'.op \in {"add", "emplace", "add.abort", "emplace.abort"}
        /\ has(Reg, last'.comp, last'.entity)) =>
          /\ UNCHANGED <<d_entities, d_pool, d_components, d_on_add, d_on_remove, d_coroutine, range_for>>
          /\ last'.calls = << >>
          /\ Consistent(d_components'[last'.comp])]_vars

\* C21: add, remove, has, get_if and destroy called with an entity that is not
\* valid are rejected: the call does not return, the entity set, the pool, the
\* stores and the callback lists stay as they were and no callback is invoked.
C21_InvalidRejected ==
    [][(/\ last'.op \in {"add", "add.abort", "remove", "remove.abort", "has",
                         "has.abort", "get_if", "get_if.abort", "destroy",
                         "destroy.abort"}
        /\ ~valid(Reg, last'.entity)) =>
          /\ last'.op \in {"add.abort", "remove.abort", "has.abort", "get_if.abort",
                           "destroy.abort"}
          /\ UNCHANGED <<d_entities, d_pool, d_components, d_on_add, d_on_remove, d_coroutine, range_for>>
          /\ last'.calls = << >>]_vars

\* C22: copy(e, src, dst) with e valid in src makes one new valid entity n in
\* dst: the valid entities of dst are the former ones and n, n has a type exactly
\* when e has it in src, with the same value; src is unchanged, and every entity
\* that was valid in dst keeps its components.
C22_Copy ==
    [][last'.op \in {"copy", "copy.abort"} =>
          LET e == last'.entity
              n == last'.ret
          IN  /\ last'.op = "copy"
              /\ ~valid(dst, n) /\ valid(dst', n)
              /\ ValidEntities(dst') = ValidEntities(dst) \cup {n}
              /\ size(dst') = size(dst) + 1
              /\ \A T \in CompSet :
                    /\ has(dst', T, n) <=> has(Reg, T, e)
                    /\ has(Reg, T, e) => get(dst', T, n) = get(Reg, T, e)
              /\ UNCHANGED <<d_entities, d_pool, d_components, d_on_add, d_on_remove, d_coroutine, range_for>>
              /\ \A f \in ValidEntities(dst), T \in CompSet :
                    /\ has(dst', T, f) <=> has(dst, T, f)
                    /\ has(dst, T, f) => get(dst', T, f) = get(dst, T, f)]_vars

\* what the registry is after a call and which callbacks the call invoked
Effect(c) ==
    /\ Reg' = c.reg
    /\ last'.calls = c.calls

\* C23: create_from(registry) yields a handle on the registry whose entity is
\* valid in it, and every method of a handle leaves the registry, returns and
\* invokes what the registry operation of that name does with the stored entity.
C23_HandleForwards ==
    [][LET e == last'.entity
           T == last'.comp
           v == last'.value
       IN  /\ last'.op = "create_from" =>
                 /\ last'.ret.d_registry = "registry"
                 /\ valid(Reg', last'.ret.d_entity)
                 /\ Reg' = create(Reg).reg
           /\ last'.op = "handle.valid" =>
                 last'.ret = valid_eval(Reg, e) /\ Reg' = Reg
           /\ last'.op = "handle.destroy" => Effect(destroy(Reg, e))
           /\ last'.op = "handle.add" => Effect(add(Reg, T, e, v))
           /\ last'.op = "handle.emplace" => Effect(emplace_comp(Reg, T, e, v))
           /\ last'.op = "handle.remove" => Effect(remove(Reg, T, e))
           /\ last'.op = "handle.has" => last'.ret = has(Reg, T, e) /\ Reg' = Reg
           /\ last'.op = "handle.get" => last'.ret = get(Reg, T, e) /\ Reg' = Reg
           /\ last'.op = "handle.get_if" =>
                 last'.ret = get_if(Reg, T, e) /\ Reg' = Reg]_vars

\* the slot indices of a sequence of dense pairs, in its order
Keys(pairs) == [p \in 1..Len(pairs) |-> pairs[p][1]]

\* the slot indices of a sequence of entities, in its order
Indices(entities) == [p \in 1..Len(entities) |-> to_index(entities[p])]

\* C24 as claimed: the store view<T1..Tn>() walks has no more entries than the
\* store of any other requested type.
C24_SmallestDrives ==
    \A Ts \in TypeLists : \A k \in 1..Len(Ts) :
        Len(view_driver(Reg, Ts)) <= ss_size(d_components[Ts[k]])

\* C24 as amended: view<T1..Tn>() walks the store of T1, the first requested
\* type, whatever the sizes of the other stores: it visits as many entries as
\* T1's store holds, and yields the entities in the order of T1's dense array
\* (those of them whose slot is occupied in the store of every requested type).
C24_FirstDrives ==
    \A Ts \in TypeLists : Len(Ts) >= 1 =>
        LET InAll(i) == \A k \in 1..Len(Ts) : ss_has(d_components[Ts[k]], i)
        IN  /\ view_driver(Reg, Ts) = d_components[Ts[1]].packed
            /\ Len(view_driver(Reg, Ts)) = ss_size(d_components[Ts[1]])
            /\ Indices(view(Reg, Ts)) = SelectSeq(Keys(d_components[Ts[1]].packed), InAll)
            /\ last.op = "view" /\ last.types = Ts => last.ret.ret = view(Reg, Ts)

\* C24 witness: view<foo, bar>() was asked for while foo's store held more
\* entries than bar's, and yielded an entity
C24_Witness ==
    /\ last.op = "view"
    /\ last.types = <<"foo", "bar">>
    /\ ss_size(d_components["foo"]) > ss_size(d_components["bar"])
    /\ Len(view_driver(Reg, last.types)) = ss_size(d_components["foo"])
    /\ Len(last.ret.ret) = 1

\* the entity the k-th of k successive create() calls returns
RECURSIVE created(_, _)
created(r, k) == IF k = 1 THEN create(r).id ELSE created(create(r).reg, k - 1)

\* C25: the pool is a queue: destroy(e) puts e at its back, create() takes the
\* slot of its front and a slot outside the pool only when the pool is empty,
\* and no call but clear() touches it otherwise; so the next create() calls
\* reuse the slots of the pooled entities in the order of their destruction.
C25_FifoRecycling ==
    /\ [](\A k \in 1..Len(d_pool) : to_index(created(Reg, k)) = to_index(d_pool[k]))
    /\ [][/\ last'.op = "destroy" => d_pool' = Append(d_pool, last'.entity)
          /\ last'.op = "create" =>
                IF d_pool # << >>
                THEN /\ to_index(last'.entity) = to_index(d_pool[1])
                     /\ d_pool' = Tail(d_pool)
                ELSE /\ d_pool' = << >>
                     /\ to_index(last'.entity) = size(Reg)
          /\ last'.op \notin {"create", "destroy", "clear"} => d_pool' = d_pool]_vars

\* C25 witness: of two destroyed entities create() has reused the slot of the
\* one destroyed first, which is the higher slot, and the other one is pooled
C25_Witness ==
    /\ last.op = "create"
    /\ ~cleared
    /\ last.entity = combine(1, 1)
    /\ d_pool = <<combine(0, 0)>>
    /\ retired = {combine(1, 0), combine(0, 0)}

\* C26: without a clear(), an entity create() returns is equal to none that was
\* issued and destroyed before, however often its slot was destroyed and
\* created again, the wrap of the generation counter included.
C26_NeverReissuedEqual ==
    ~cleared => (last.op = "create" => last.entity \notin retired)

\* C27: an entity value that destroy or clear() has made invalid is not valid
\* again, also after the create() calls that follow a clear() (no generation
\* counter having wrapped).
C27_StaleAcrossClear ==
    ~wrapped => \A e \in retired : ~valid(Reg, e)

\* erase(i) on a store: i is gone, every other index keeps its occupancy and
\* its value
EraseFrame(s) ==
    \A i \in Occupied(s) :
        LET t == ss_erase(s, i)
        IN  /\ ~ss_has(t, i)
            /\ Occupied(t) = Occupied(s) \ {i}
            /\ \A j \in Occupied(t) : ss_at(t, j) = ss_at(s, j)

\* C28: sparse_set::erase(i) makes has(i) false and leaves has(j) and the value
\* at j as they were for every other index j, whatever it does to the dense
\* positions; remove<T>(e) and destroy(e) leave every other valid entity valid
\* with all its components and values, and remove<T>(e) leaves e valid with its
\* components of the other types.
C28_SwapRemoveFrame ==
    /\ [](EraseFrame(d_entities) /\ \A T \in CompSet : EraseFrame(d_components[T]))
    /\ [][last'.op \in {"remove", "destroy"} =>
             LET e == last'.entity
             IN  /\ \A f \in ValidEntities(Reg) \ {e} : Untouched(f)
                 /\ last'.op = "remove" =>
                       /\ valid(Reg', e)
                       /\ \A U \in CompSet \ {last'.comp} :
                             /\ has(Reg', U, e) <=> has(Reg, U, e)
                             /\ has(Reg, U, e) => get(Reg', U, e) = get(Reg, U, e)]_vars

\* C28 witness: the entity of slot 0 was destroyed while it and the entity of
\* slot 1 held foo (the on_remove<foo> callback ran for it); the other entity
\* and its component have moved to the first dense position and it still reads
\* its value
C28_Witness ==
    /\ last.op = "destroy"
    /\ to_index(last.entity) = 0
    /\ Len(last.calls) = 1 /\ last.calls[1].comp = "foo"
    /\ d_entities.packed = <<<<1, combine(1, 0)>>>>
    /\ d_components["foo"].packed = <<<<1, 2>>>>
    /\ d_components["foo"].sparse[2] = 0
    /\ get(Reg, "foo", combine(1, 0)) = 2

\* the dense position (from 1) of an occupied index
PositionOf(s, i) == CHOOSE p \in 1..Len(s.packed) : s.packed[p][1] = i

\* C29: each() yields the dense array as it is: every occupied index once, with
\* its value; insert and emplace append the new pair at the end of that order;
\* erase(i) of the last pair drops it, erase(i) of another pair puts the former
\* last pair at i's position; the pairs at all other positions stay where they
\* are.
C29_IterationOrder ==
    /\ [](LET pairs == ss_each(set)
          IN  /\ pairs = set.packed
              /\ NoDuplicates(Keys(pairs))
              /\ Range(pairs) = {<<i, ss_at(set, i)>> : i \in Occupied(set)})
    /\ [][LET old == ss_each(set)
              new == ss_each(set')
              i   == last'.entity
              n   == Len(old)
          IN  /\ last'.op \in {"set.insert", "set.emplace"} =>
                    new = Append(old, <<i, last'.value>>)
              /\ (last'.op \in {"set.erase", "set.erase_if_exists"} /\ ss_has(set, i)) =>
                    IF PositionOf(set, i) = n THEN new = pop_back(old)
                    ELSE new = [pop_back(old) EXCEPT ![PositionOf(set, i)] = old[n]]
              /\ (last'.op = "set.erase_if_exists" /\ ~ss_has(set, i)) => new = old]_vars

\* C29 witness: of three pairs the first one was erased; the pair inserted last
\* is first in the order now, the second one kept its position
C29_Witness ==
    /\ last.op = "set.erase"
    /\ last.entity = 0
    /\ ss_each(set) = <<<<3, 2>>, <<1, 1>>>>

\* C30: the entity create() returns is valid and has no component of any
\* declared type, also when its slot was that of a destroyed entity that held
\* components.
C30_CreatedIsBare ==
    last.op = "create" =>
        /\ valid(Reg, last.entity)
        /\ \A T \in CompSet :
              /\ ~has(Reg, T, last.entity)
              /\ get_if(Reg, T, last.entity).ptr = nullptr

\* the pool and the entity set share out the slot indices handed out so far
PoolInvariant ==
    /\ NoDuplicates(Indices(d_pool))
    /\ \A k \in 1..Len(d_pool) : ~ss_has(d_entities, to_index(d_pool[k]))
    /\ Occupied(d_entities) \cup Range(Indices(d_pool))
          = 0..(size(Reg) + Len(d_pool) - 1)
    /\ \A p \in 1..Len(d_entities.packed) :
          to_index(d_entities.packed[p][2]) = d_entities.packed[p][1]

\* C31: no slot index occurs twice in the pool, no pooled slot is occupied in
\* the entity set, the occupied and the pooled slots together are
\* 0 .. size() + |pool| - 1, the entity stored at an occupied slot has that slot
\* index, and the slot at which create() inserts is never occupied.
C31_PoolEntitySet ==
    /\ PoolInvariant
    /\ ~ss_has(d_entities, to_index(create(Reg).id))

\* C32: every index occupied in a component store is occupied in the entity
\* set, so no component store is larger than the entity set, and the entity
\* that view() derives from a store index with from_index is valid.
C32_ComponentsOnLive ==
    /\ \A T \in CompSet : Occupied(d_components[T]) \subseteq Occupied(d_entities)
    /\ \A T \in CompSet : ss_size(d_components[T]) <= size(Reg)
    /\ \A T \in CompSet : \A p \in 1..ss_size(d_components[T]) :
          valid(Reg, from_index(Reg, ss_each(d_components[T])[p][1]))
    /\ \A Ts \in TypeLists \ {<< >>} :
          /\ ~view_eval(Reg, Ts).fail
          /\ \A p \in 1..Len(view(Reg, Ts)) : valid(Reg, view(Reg, Ts)[p])

\* a destroy has taken an entity together with its component (its on_remove
\* callback ran) out of a registry in which another entity holds that component
C32_Witness ==
    /\ last.op = "destroy"
    /\ Len(last.calls) = 1
    /\ size(Reg) = 1
    /\ ss_size(d_components[last.calls[1].comp]) = 1

\* what a loop over safe() has been handed so far: elements that were in the set
\* when the loop started, in ascending index order, none of them twice, and
\* all of them once the loop is left
SafeYields ==
    LET seen  == range_for.seen
        start == range_for.start
    IN  /\ Range(seen) \subseteq Range(start)
        /\ \A p, q \in 1..Len(seen) : p < q => seen[p][1] < seen[q][1]
        /\ range_for.phase = "exited" => Range(seen) = Range(start)
        /\ range_for.phase # "thrown"

\* C33: a loop over sparse_set::safe() whose body may erase the element it was
\* handed is handed every element that was in the set when the loop started
\* exactly once, in ascending index order, and the loop terminates.
C33_SafeAllowsErase ==
    /\ []SafeYields
    /\ (range_for.phase = "created") ~> (range_for.phase = "exited")

\* a loop over a set of three elements whose dense order is not the index order
\* has erased every element it was handed and has been left
C33_Witness ==
    /\ range_for.phase = "exited"
    /\ Len(range_for.start) = 3
    /\ range_for.start[1][1] > range_for.start[3][1]
    /\ Len(range_for.seen) = 3
    /\ ss_size(set) = 0

\* what a loop over a generator has visited so far: the values the coroutine
\* co_yields, in yield order, each once, and all of them once the loop is left;
\* the iterator is equal to end() exactly when the coroutine has been resumed
\* past its last co_yield
GeneratorYields ==
    LET seen   == range_for.seen
        values == range_for.values
    IN  /\ Len(seen) <= Len(values)
        /\ seen = SubSeq(values, 1, Len(seen))
        /\ range_for.phase \in {"exited", "each", "thrown"} => seen = values
        /\ range_for.phase = "test" =>
              /\ iterator_is_end(d_coroutine) <=> range_for.resumes = Len(values) + 1
              /\ ~iterator_is_end(d_coroutine) =>
                    /\ range_for.resumes = Len(seen) + 1
                    /\ iterator_deref(d_coroutine) = values[Len(seen) + 1]

\* C34: a loop over a generator with begin(), operator++ and end() visits the
\* co_yielded values in yield order, each exactly once; the iterator is equal to
\* the end sentinel exactly when the coroutine has finished; the loop over a
\* finite coroutine terminates; each(f) applies f to the same sequence.
C34_GeneratorIteration ==
    /\ []GeneratorYields
    /\ (range_for.phase = "created") ~> (range_for.phase \in {"exited", "each", "thrown"})

\* a loop over a coroutine with three co_yields, not all of one value, was left
C34_Witness ==
    /\ range_for.phase = "exited"
    /\ Len(range_for.values) = 3
    /\ range_for.values[1] # range_for.values[2]
    /\ range_for.seen = range_for.values
    /\ range_for.resumes = 4

=============================================================================
